---------------------------- MODULE Spec2Model ----------------------------
(***************************************************************************)
(* The channel chat view of messaging-frontend-new (pages/Messaging.jsx): *)
(* a React component that loads a channel's history over REST, opens a    *)
(* WebSocket for the channel, appends the frames it receives to the       *)
(* transcript and sends the typed text over the socket.                   *)
(*                                                                         *)
(* One effect run (useEffect, deps [channelId, token]) is one entry of    *)
(* `opens`: the history request it issued and the socket it created.  The  *)
(* server, the network and the user are the environment: they choose the  *)
(* history list, the live frames, their timing and the user's gestures.   *)
(* React runs the cleanup of the previous effect and the new effect in    *)
(* the same commit, so a change of channelId or token is one step; the    *)
(* re-render that commits setWs(socket) is a step of its own.             *)
(*                                                                         *)
(* Spec is the view on its own, under any sequence of props.  SpecApp is   *)
(* the application around it: the auth store (store/authstore.js), the     *)
(* 'token' cookie, the route table (App.js) and its guard                  *)
(* (components/ProtectedRoute.jsx), which decide when the view is rendered *)
(* and with which token.                                                    *)
(***************************************************************************)
EXTENDS Integers, Sequences, FiniteSets

VARIABLES
    mounted,    \* the Messaging component is rendered
    channelId,  \* useParams().channelId of the current render
    token,      \* useAuthStore(state => state.token) of the current render
    messages,   \* useState([]) : the transcript
    content,    \* useState('') : the typed text
    ws,         \* useState(null) : the socket the handlers see (0 = null)
    wsQueued,   \* a setWs(socket) not yet committed by a re-render (0 = none)
    error,      \* useState('') : the user-visible notice
    opens,      \* one record per effect run of the rendered instance (of the
                \* last one, once unmounted): its request and its socket
    sent,       \* the frames the last submit handed to WebSocket.send
    cookie,           \* the browser's 'token' cookie
    storeToken,       \* useAuthStore: token
    user,             \* useAuthStore: user
    isAuthenticated,  \* useAuthStore: isAuthenticated
    route,            \* the route that is rendered
    loginPending      \* calls of login() whose request is in flight

viewVars == <<mounted, channelId, token, messages, content, ws, wsQueued,
              error, opens, sent>>

appVars == <<cookie, storeToken, user, isAuthenticated, route, loginPending>>

vars == <<viewVars, appVars>>

----------------------------------------------------------------------------
(* Bounds of the model *)

MaxOpens == 2

MaxTranscript == 2

MaxLogins == 1

----------------------------------------------------------------------------
(* The environment: channels, credentials, texts and the server's messages *)

Channels == {1, 2}

NoToken == "null"

Tokens == {"t1"}

Texts == {"hi"}

MsgIds == 1 .. 3

ChannelOf(i) == IF i % 3 = 0 THEN 2 ELSE 1

CreatedAt(i) == i

Message(i) ==
    [type |-> "message", id |-> i, channelId |-> ChannelOf(i),
     created_at |-> CreatedAt(i)]

OtherFrame(c) ==
    [type |-> "typing", id |-> 0, channelId |-> c, created_at |-> 0]

ChannelMessages(c) == {Message(i) : i \in {j \in MsgIds : ChannelOf(j) = c}}

\* What the socket of channel c can deliver: a message of c, or another kind
FramesOf == [c \in Channels |-> ChannelMessages(c) \cup {OtherFrame(c)}]

Frames(c) == FramesOf[c]

\* What GET /messages/{c} can answer: messages of c, each once, by created_at
HistoriesOf ==
    [c \in Channels |->
        {h \in UNION {[1 .. n -> ChannelMessages(c)] : n \in 0 .. 2} :
            /\ \A i, j \in DOMAIN h : i < j => h[i].id # h[j].id
            /\ \A i, j \in DOMAIN h :
                   i < j => h[i].created_at <= h[j].created_at}]

Histories(c) == HistoriesOf[c]

\* WebSocket.readyState; NoSocket marks an effect run that created none
CONNECTING == 0

OPEN == 1

CLOSING == 2

CLOSED == 3

NoSocket == -1

ErrWebSocket == "WebSocket error"

ErrHistory == "Failed to load messages"

ErrUnavailable == "WebSocket unavailable!"

NoUser == "null"

Users == {"u1"}

\* The paths of the route table
LoginRoute == "/login"

ChannelsRoute == "/channels"

MessagingRoute == "/channels/:channelId"

Protected ==
    {ChannelsRoute, MessagingRoute, "/calendar", "/channels/:channelId/upload"}

Routes == {LoginRoute, "/register"} \cup Protected

----------------------------------------------------------------------------
(* State after construction: nothing rendered yet *)

\* No <Messaging/> instance exists
InitView ==
    /\ mounted = FALSE
    /\ channelId = 1
    /\ token = NoToken
    /\ messages = <<>>
    /\ content = ""
    /\ ws = 0
    /\ wsQueued = 0
    /\ error = ""
    /\ opens = <<>>
    /\ sent = <<>>

\* create(...): token: Cookies.get('token') || null, isAuthenticated: !!Cookies.get('token')
InitStore ==
    /\ storeToken = (IF cookie # NoToken THEN cookie ELSE NoToken)
    /\ isAuthenticated = (cookie # NoToken)
    /\ user = NoUser

\* The view on its own: the store and the router play no part
Init ==
    /\ InitView
    /\ cookie = NoToken
    /\ InitStore
    /\ route = LoginRoute
    /\ loginPending = 0

\* The effect run whose cleanup is pending: the latest one
Current == Len(opens)

\* The component instance that issued effect run k is still rendered
Alive(k) == mounted /\ k \in DOMAIN opens

----------------------------------------------------------------------------
(* useEffect, lines 18-40 *)

\* Faulty variant: close() is skipped for a socket that is still connecting
CloseSocket_OnlyOpen(rs) == IF rs = OPEN THEN CLOSING ELSE rs

\* WebSocket.close(): a connecting or open socket starts closing
CloseSocket(rs) == IF rs \in {CONNECTING, OPEN} THEN CLOSING ELSE rs

\* Faulty variant: the effect returns no cleanup, the socket is never closed
Cleanup_NoClose(os) == os

\* return () => socket && socket.close()  of the latest effect run
Cleanup(os) ==
    IF os = <<>> THEN os
    ELSE [os EXCEPT ![Len(os)].readyState = CloseSocket(@)]

\* Faulty variant: the socket is created whether or not a token is present
NewSocketState_IgnoresToken(t) == CONNECTING

\* if (token) { socket = new WebSocket(...) }
NewSocketState(t) == IF t # NoToken THEN CONNECTING ELSE NoSocket

\* fetchMessages(); if (token) { new WebSocket(...); setWs(socket) }
RunEffect(os, c, t) ==
    /\ opens' = Append(os, [channelId |-> c, token |-> t,
                            pending |-> TRUE,
                            readyState |-> NewSocketState(t)])
    /\ wsQueued' = IF NewSocketState(t) # NoSocket THEN Len(os) + 1 ELSE wsQueued

\* The route renders <Messaging/>: a new instance with fresh state, then the
\* effect.  Nothing of an earlier instance reaches the new one: its sockets
\* were closed by its cleanup and React ignores its state updates, so its
\* effect runs are forgotten here
Mount(c, t) ==
    /\ ~mounted
    /\ mounted' = TRUE
    /\ channelId' = c
    /\ token' = t
    /\ messages' = <<>>
    /\ content' = ""
    /\ ws' = 0
    /\ error' = ""
    /\ RunEffect(<<>>, c, t)
    /\ sent' = <<>>

\* The route param changes while the view is reused: cleanup, then the effect
ChangeChannel(c) ==
    /\ mounted
    /\ c # channelId
    /\ Len(opens) < MaxOpens
    /\ channelId' = c
    /\ RunEffect(Cleanup(opens), c, token)
    /\ UNCHANGED <<mounted, token, messages, content, ws, error, sent>>

\* The store's token changes while the view is rendered: cleanup, then the effect
ChangeToken(t) ==
    /\ mounted
    /\ t # token
    /\ Len(opens) < MaxOpens
    /\ token' = t
    /\ RunEffect(Cleanup(opens), channelId, t)
    /\ UNCHANGED <<mounted, channelId, messages, content, ws, error, sent>>

\* React ignores the state updates of an unmounted component, so a response
\* still awaited by the instance that unmounts is dropped with it
DropRequests(os) == [k \in DOMAIN os |-> [os[k] EXCEPT !.pending = FALSE]]

\* The view leaves the screen: cleanup; the instance's state and props are gone
Unmount ==
    /\ mounted
    /\ mounted' = FALSE
    /\ opens' = DropRequests(Cleanup(opens))
    /\ messages' = <<>>
    /\ content' = ""
    /\ ws' = 0
    /\ wsQueued' = 0
    /\ error' = ""
    /\ channelId' = 1
    /\ token' = NoToken
    /\ sent' = <<>>

\* The re-render that commits setWs(socket), line 35
Rerender ==
    /\ mounted
    /\ wsQueued # 0
    /\ ws' = wsQueued
    /\ wsQueued' = 0
    /\ UNCHANGED <<mounted, channelId, token, messages, content, error,
                   opens, sent>>

----------------------------------------------------------------------------
(* The socket's events, lines 26-34 *)

\* socket.onopen: the server accepted the connection; the handler only logs
OnOpen(k) ==
    /\ opens[k].readyState = CONNECTING
    /\ opens' = [opens EXCEPT ![k].readyState = OPEN]
    /\ UNCHANGED <<mounted, channelId, token, messages, content, ws,
                   wsQueued, error, sent>>

\* Faulty variant: the new message is put in front of the list
AppendMessage_Prepend(prev, message) == <<message>> \o prev

\* setMessages((prev) => [...prev, message]), line 30
AppendMessage(prev, message) == Append(prev, message)

\* Faulty variant: the frame's type is not tested
OnMessage_AnyType(k, frame) ==
    /\ opens[k].readyState = OPEN
    /\ Len(messages) < MaxTranscript
    /\ messages' = IF Alive(k) THEN AppendMessage(messages, frame) ELSE messages
    /\ UNCHANGED <<mounted, channelId, token, content, ws, wsQueued,
                   error, opens, sent>>

\* socket.onmessage, lines 27-33; the platform dispatches message events of
\* an OPEN socket only
OnMessage(k, frame) ==
    /\ opens[k].readyState = OPEN
    /\ Len(messages) < MaxTranscript
    /\ messages' = IF frame.type = "message" /\ Alive(k)
                   THEN AppendMessage(messages, frame)
                   ELSE messages
    /\ UNCHANGED <<mounted, channelId, token, content, ws, wsQueued,
                   error, opens, sent>>

\* Faulty variant: the error handler replaces the failed socket by a new one
OnError_Reconnect(k) ==
    /\ opens[k].readyState \in {CONNECTING, OPEN, CLOSING}
    /\ opens' = [opens EXCEPT ![k].readyState = CONNECTING]
    /\ error' = IF Alive(k) THEN ErrWebSocket ELSE error
    /\ UNCHANGED <<mounted, channelId, token, messages, content, ws,
                   wsQueued, sent>>

\* socket.onerror = () => setError('WebSocket error'), line 34; the failed
\* connection is closed
OnError(k) ==
    /\ opens[k].readyState \in {CONNECTING, OPEN, CLOSING}
    /\ opens' = [opens EXCEPT ![k].readyState = CLOSED]
    /\ error' = IF Alive(k) THEN ErrWebSocket ELSE error
    /\ UNCHANGED <<mounted, channelId, token, messages, content, ws,
                   wsQueued, sent>>

\* The connection ends without an error event; no onclose handler is set
OnClose(k) ==
    /\ opens[k].readyState \in {CONNECTING, OPEN, CLOSING}
    /\ opens' = [opens EXCEPT ![k].readyState = CLOSED]
    /\ UNCHANGED <<mounted, channelId, token, messages, content, ws,
                   wsQueued, error, sent>>

----------------------------------------------------------------------------
(* fetchMessages, lines 43-51 *)

\* Faulty variant: the history is added to what the transcript holds
SetMessages_Concat(prev, data) == prev \o data

\* setMessages(data), line 46
SetMessages(prev, data) == data

\* The request of effect run k is still allowed to change the transcript
HistoryApplies(k) == Alive(k)

\* await messagesAPI.list(channelId) resolves
HistoryResolve(k, data) ==
    /\ opens[k].pending
    /\ opens' = [opens EXCEPT ![k].pending = FALSE]
    /\ messages' = IF HistoryApplies(k) THEN SetMessages(messages, data)
                   ELSE messages
    /\ UNCHANGED <<mounted, channelId, token, content, ws, wsQueued,
                   error, sent>>

\* Faulty variant: a failed fetch also empties the transcript and closes the
\* socket of its effect run
HistoryReject_TearsDown(k) ==
    /\ opens[k].pending
    /\ opens' = [opens EXCEPT ![k].pending = FALSE,
                              ![k].readyState = CloseSocket(@)]
    /\ error' = IF Alive(k) THEN ErrHistory ELSE error
    /\ messages' = IF Alive(k) THEN <<>> ELSE messages
    /\ UNCHANGED <<mounted, channelId, token, content, ws, wsQueued, sent>>

\* await messagesAPI.list(channelId) rejects: setError('Failed to load messages')
HistoryReject(k) ==
    /\ opens[k].pending
    /\ opens' = [opens EXCEPT ![k].pending = FALSE]
    /\ error' = IF Alive(k) THEN ErrHistory ELSE error
    /\ UNCHANGED <<mounted, channelId, token, messages, content, ws,
                   wsQueued, sent>>

----------------------------------------------------------------------------
(* The form, lines 54-62 and 79-88 *)

\* onChange={e => setContent(e.target.value)}
SetContent(text) ==
    /\ mounted
    /\ content # text
    /\ content' = text
    /\ UNCHANGED <<mounted, channelId, token, messages, ws, wsQueued,
                   error, opens, sent>>

\* Faulty variant: only the presence of ws is tested, not its readyState
WsUsable_NullCheckOnly == ws # 0

\* !(!ws || ws.readyState !== 1), line 56
WsUsable == ws # 0 /\ opens[ws].readyState = OPEN

\* JSON.stringify({ content }), the frame handed to ws.send, line 60
OutFrame(text) == [content |-> text]

\* Faulty variant: the sent text is echoed into the transcript at once
SendMessage_OptimisticEcho ==
    /\ mounted
    /\ content # ""
    /\ IF ~WsUsable
       THEN /\ error' = ErrUnavailable
            /\ sent' = <<>>
            /\ UNCHANGED <<content, messages>>
       ELSE /\ sent' = <<OutFrame(content)>>
            /\ messages' = Append(messages, [type |-> "message", id |-> 0,
                                             channelId |-> channelId,
                                             created_at |-> 0])
            /\ content' = ""
            /\ UNCHANGED error
    /\ UNCHANGED <<mounted, channelId, token, ws, wsQueued, opens>>

\* sendMessage, lines 54-62; the input is `required`, so the form submits
\* non-empty text only
SendMessage ==
    /\ mounted
    /\ content # ""
    /\ IF ~WsUsable
       THEN /\ error' = ErrUnavailable
            /\ sent' = <<>>
            /\ UNCHANGED content
       ELSE /\ sent' = <<OutFrame(content)>>
            /\ content' = ""
            /\ UNCHANGED error
    /\ UNCHANGED <<mounted, channelId, token, messages, ws, wsQueued,
                   opens>>

----------------------------------------------------------------------------

Next ==
    \/ \E c \in Channels, t \in Tokens \cup {NoToken} :
           Mount(c, t) /\ UNCHANGED appVars
    \/ \E c \in Channels : ChangeChannel(c) /\ UNCHANGED appVars
    \/ \E t \in Tokens \cup {NoToken} : ChangeToken(t) /\ UNCHANGED appVars
    \/ Unmount /\ UNCHANGED appVars
    \/ Rerender /\ UNCHANGED appVars
    \/ \E k \in DOMAIN opens : OnOpen(k) /\ UNCHANGED appVars
    \/ \E k \in DOMAIN opens : \E frame \in Frames(opens[k].channelId) :
           OnMessage(k, frame) /\ UNCHANGED appVars
    \/ \E k \in DOMAIN opens : OnError(k) /\ UNCHANGED appVars
    \/ \E k \in DOMAIN opens : OnClose(k) /\ UNCHANGED appVars
    \/ \E k \in DOMAIN opens : \E data \in Histories(opens[k].channelId) :
           HistoryResolve(k, data) /\ UNCHANGED appVars
    \/ \E k \in DOMAIN opens : HistoryReject(k) /\ UNCHANGED appVars
    \/ \E text \in Texts \cup {""} : SetContent(text) /\ UNCHANGED appVars
    \/ SendMessage /\ UNCHANGED appVars

Spec == Init /\ [][Next]_vars

----------------------------------------------------------------------------
(* The application: auth store, cookie, route table and route guard *)

\* Faulty variant: the guard renders its children whatever the store says
ProtectedRoute_NoGuard(r, auth) == r

\* isAuthenticated ? children : <Navigate to="/login" />
ProtectedRoute(r, auth) == IF r \in Protected /\ ~auth THEN LoginRoute ELSE r

\* The route a location ends at: "/" goes to /channels, then the guard
Resolve(r, auth) == ProtectedRoute(IF r = "/" THEN ChannelsRoute ELSE r, auth)

\* The router renders route r: <Messaging/> is mounted with the store's token
\* t, reused with another channelId, or unmounted
RenderRoute(r, c, t) ==
    /\ route' = r
    /\ IF r = MessagingRoute
       THEN IF mounted
            THEN IF c = channelId THEN UNCHANGED viewVars ELSE ChangeChannel(c)
            ELSE Mount(c, t)
       ELSE IF mounted THEN Unmount ELSE UNCHANGED viewVars

\* A link, navigate(...) or the history buttons lead to location r
Navigate(r, c) ==
    /\ RenderRoute(Resolve(r, isAuthenticated), c, storeToken)
    /\ UNCHANGED <<cookie, storeToken, user, isAuthenticated, loginPending>>

\* Login.handleSubmit calls login(email, password): the request leaves
LoginSubmit ==
    /\ route = LoginRoute
    /\ loginPending < MaxLogins
    /\ loginPending' = loginPending + 1
    /\ UNCHANGED <<viewVars, cookie, storeToken, user, isAuthenticated, route>>

\* Faulty variant: the store is updated, the cookie is not written
LoginResolve_NoCookie(t, u) ==
    /\ loginPending > 0
    /\ loginPending' = loginPending - 1
    /\ storeToken' = t
    /\ user' = u
    /\ isAuthenticated' = TRUE
    /\ RenderRoute(Resolve(ChannelsRoute, TRUE), channelId, t)
    /\ UNCHANGED cookie

\* The request succeeds: Cookies.set, set({user, token, isAuthenticated}),
\* then handleSubmit's navigate('/channels')
LoginResolve(t, u) ==
    /\ loginPending > 0
    /\ loginPending' = loginPending - 1
    /\ cookie' = t
    /\ storeToken' = t
    /\ user' = u
    /\ isAuthenticated' = TRUE
    /\ RenderRoute(Resolve(ChannelsRoute, TRUE), channelId, t)

\* The request fails: login throws at its await, handleSubmit shows the error
LoginReject ==
    /\ loginPending > 0
    /\ loginPending' = loginPending - 1
    /\ UNCHANGED <<viewVars, cookie, storeToken, user, isAuthenticated, route>>

\* logout(): Cookies.remove, set({user: null, token: null, isAuthenticated:
\* false}); the guard of the rendered route re-renders with the new store
\* state, and handleLogout's navigate('/login') ends at the same route
Logout ==
    /\ cookie' = NoToken
    /\ storeToken' = NoToken
    /\ user' = NoUser
    /\ isAuthenticated' = FALSE
    /\ RenderRoute(Resolve(route, FALSE), channelId, NoToken)
    /\ UNCHANGED loginPending

\* setUser(user)
SetUser(u) ==
    /\ user' = u
    /\ UNCHANGED <<viewVars, cookie, storeToken, isAuthenticated, route,
                   loginPending>>

\* The page is loaded again on a route other than the chat: the store is
\* created from the cookie, the requests of the old page are gone
Reload ==
    /\ ~mounted
    /\ storeToken' = (IF cookie # NoToken THEN cookie ELSE NoToken)
    /\ isAuthenticated' = (cookie # NoToken)
    /\ user' = NoUser
    /\ loginPending' = 0
    /\ route' = Resolve(route, cookie # NoToken)
    /\ UNCHANGED <<viewVars, cookie>>

\* The page is loaded on a route other than the chat, with or without a cookie
InitApp ==
    /\ InitView
    /\ cookie \in Tokens \cup {NoToken}
    /\ InitStore
    /\ route \in {Resolve(r, cookie # NoToken) :
                      r \in (Routes \cup {"/"}) \ {MessagingRoute}}
    /\ loginPending = 0

\* The steps of the application; of the view, those that concern its socket
NextApp ==
    \/ \E r \in Routes \cup {"/"}, c \in Channels : Navigate(r, c)
    \/ LoginSubmit
    \/ \E t \in Tokens, u \in Users : LoginResolve(t, u)
    \/ LoginReject
    \/ Logout
    \/ \E u \in Users \cup {NoUser} : SetUser(u)
    \/ Reload
    \/ Rerender /\ UNCHANGED appVars
    \/ \E k \in DOMAIN opens : OnOpen(k) /\ UNCHANGED appVars
    \/ \E k \in DOMAIN opens : OnError(k) /\ UNCHANGED appVars
    \/ \E k \in DOMAIN opens : OnClose(k) /\ UNCHANGED appVars

SpecApp == InitApp /\ [][NextApp]_vars

----------------------------------------------------------------------------
(* Vocabulary of the properties *)

\* The history response of effect run k lands in this step
HistoryLands(k) ==
    /\ mounted /\ mounted'
    /\ k \in DOMAIN opens
    /\ opens[k].pending
    /\ ~opens'[k].pending

\* ws is absent or not Open (readyState != 1)
WsAbsentOrNotOpen == ws = 0 \/ opens[ws].readyState # OPEN

\* The socket of the open session is closed although no cleanup closed it:
\* the transport failed or the peer ended the connection
CurrentSocketDown ==
    /\ mounted
    /\ opens # <<>>
    /\ opens[Current].readyState = CLOSED

SocketCount == Cardinality({k \in DOMAIN opens : opens[k].readyState # NoSocket})

\* A fresh open: mount, or a change of channelId or token
FreshOpen == mounted' /\ (~mounted \/ channelId' # channelId \/ token' # token)

----------------------------------------------------------------------------
(* C1: no two entries of the transcript have the same id; a live 'message' *)
(* frame whose id is already in the transcript leaves it unchanged.         *)
C1_UniqueIds ==
    \A i, j \in DOMAIN messages : i # j => messages[i].id # messages[j].id

(* C2: the final transcript does not depend on whether the history         *)
(* response is applied before or after the live frames; a live message     *)
(* that arrived before the history response is still in the transcript     *)
(* after the history lands.  Stated for the first open of an instance,     *)
(* where every entry present before the response was received live.        *)
C2_LiveSurvivesHistory ==
    [][(HistoryLands(1) /\ Current = 1) =>
          \A i \in DOMAIN messages :
              \E j \in DOMAIN messages' : messages'[j] = messages[i]]_vars

(* C3: the transcript is in non-decreasing created_at order in every       *)
(* reachable state.                                                         *)
C3_SortedByCreatedAt ==
    \A i, j \in DOMAIN messages :
        i < j => messages[i].created_at <= messages[j].created_at

(* C4: a history response requested by an earlier open that arrives after  *)
(* the view was re-opened is discarded: it does not change the transcript. *)
C4_StaleHistoryDiscarded ==
    [][\A k \in DOMAIN opens :
          (HistoryLands(k) /\ k # Current) => messages' = messages]_vars

(* C5: no frame of a connection that was closed mutates the transcript; a  *)
(* frame that mutates it comes from the connection of the current open,    *)
(* opened for the current channelId and token.                              *)
C5_OnlyCurrentSocketDelivers ==
    [][\A k \in DOMAIN opens : \A frame \in Frames(opens[k].channelId) :
          (messages' # messages /\ OnMessage(k, frame)) =>
              /\ k = Current
              /\ opens[k].readyState \notin {CLOSING, CLOSED}
              /\ opens[k].channelId = channelId
              /\ opens[k].token = token]_vars

\* A frame of the new connection was applied while the connection of the
\* previous open of the same view is closing
C5_Witness ==
    /\ mounted
    /\ Current = 2
    /\ opens[1].readyState = CLOSING
    /\ opens[2].readyState = OPEN
    /\ messages # <<>>
    /\ messages[Len(messages)].channelId = channelId

(* C6: the transcript of an opened channel starts empty and contains only  *)
(* messages of that channel; re-opening the reused view for another        *)
(* channelId carries over no message of the previous channel.              *)
C6_NoCarryOver ==
    [][(mounted /\ mounted' /\ channelId' # channelId) =>
          \A i \in DOMAIN messages' : messages'[i].channelId = channelId']_vars

(* C7: sendMessage while the connection is absent or not Open transmits    *)
(* nothing, leaves the transcript alone, reports the unavailable error and *)
(* keeps the typed text.                                                    *)
C7_SendUnavailable ==
    [][(SendMessage /\ WsAbsentOrNotOpen) =>
          /\ sent' = <<>>
          /\ messages' = messages
          /\ error' = ErrUnavailable
          /\ content' = content]_vars

\* A send was refused on a socket that exists but is not Open
C7_Witness ==
    /\ mounted
    /\ ws # 0
    /\ opens[ws].readyState # OPEN
    /\ error = ErrUnavailable
    /\ content # ""
    /\ sent = <<>>

(* C8: a successful sendMessage transmits exactly one frame {content: text} *)
(* and leaves the transcript unchanged; the transcript changes only when a  *)
(* 'message' frame or the history arrives.                                  *)
C8_SendTransmitsOneFrame ==
    [][/\ (SendMessage /\ ~WsAbsentOrNotOpen) =>
              /\ sent' = <<[content |-> content]>>
              /\ messages' = messages
       /\ (mounted /\ mounted' /\ messages' # messages) =>
              \E k \in DOMAIN opens :
                  \/ HistoryLands(k)
                  \/ /\ opens[k].readyState = OPEN
                     /\ \E frame \in Frames(opens[k].channelId) :
                            /\ frame.type = "message"
                            /\ messages' = Append(messages, frame)]_vars

\* One frame was transmitted and nothing entered the transcript
C8_Witness ==
    /\ mounted
    /\ ~WsAbsentOrNotOpen
    /\ sent = <<[content |-> "hi"]>>
    /\ content = ""
    /\ messages = <<>>

(* C9: opened with no token, the history is still requested and applied,   *)
(* no live connection is attempted, and every sendMessage fails with the   *)
(* unavailable error; also when the token goes away after a session that   *)
(* had one.                                                                 *)
C9_HistoryOnlyMode ==
    [][/\ (FreshOpen /\ token' = NoToken) =>
              opens'[Len(opens')] =
                  [channelId |-> channelId', token |-> NoToken,
                   pending |-> TRUE, readyState |-> NoSocket]
       /\ (mounted \/ ~mounted') =>
              \A k \in DOMAIN opens :
                  opens[k].readyState = NoSocket =>
                      opens'[k].readyState = NoSocket
       /\ (mounted /\ token = NoToken /\ opens' # opens) =>
              \A data \in Histories(channelId) :
                  HistoryResolve(Current, data) => messages' = data
       /\ (token = NoToken /\ SendMessage) =>
              /\ error' = ErrUnavailable
              /\ sent' = <<>>
              /\ content' = content]_vars

\* The token went away: the history of the token-less open was applied and a
\* send was refused while the handlers still held the previous socket
C9_Witness ==
    /\ mounted
    /\ token = NoToken
    /\ Current = 2
    /\ opens[1].token # NoToken
    /\ opens[2].readyState = NoSocket
    /\ ~opens[2].pending
    /\ ws = 1
    /\ messages # <<>>
    /\ error = ErrUnavailable
    /\ content # ""

(* C10: after the live transport failed or closed on its own, the socket   *)
(* stays closed (a socket's readyState never goes back), every sendMessage *)
(* fails with the unavailable error, and a new connection appears only     *)
(* through a fresh open.                                                    *)
C10_NoReconnect ==
    [][/\ (mounted \/ ~mounted') =>
              \A k \in DOMAIN opens :
                  /\ opens'[k].readyState >= opens[k].readyState
                  /\ opens[k].readyState = CLOSED => opens'[k].readyState = CLOSED
       /\ (SendMessage /\ CurrentSocketDown) =>
              /\ error' = ErrUnavailable
              /\ sent' = <<>>
       /\ SocketCount' > SocketCount => FreshOpen]_vars

\* The transport of the open session failed while the handlers held its socket
C10_Witness ==
    /\ CurrentSocketDown
    /\ ws = Current
    /\ error = ErrWebSocket
    /\ content # ""

(* C11: history and live failures are independent.  A failed history fetch *)
(* sets the notice, leaves the transcript and every socket as they were,   *)
(* and live frames are still appended afterwards; a transport error leaves *)
(* the transcript and the pending request alone, and the history response  *)
(* is still applied after it.                                               *)
C11_IndependentFailures ==
    [][/\ (opens' # opens) =>
              (\A k \in DOMAIN opens :
                  /\ HistoryReject(k) =>
                         /\ messages' = messages
                         /\ Alive(k) => error' = ErrHistory
                         /\ \A j \in DOMAIN opens :
                                opens'[j].readyState = opens[j].readyState
                  /\ OnError(k) =>
                         /\ messages' = messages
                         /\ \A j \in DOMAIN opens :
                                opens'[j].pending = opens[j].pending
                  /\ (mounted /\ k = Current /\ opens[k].readyState = CLOSED) =>
                         (\A data \in Histories(opens[k].channelId) :
                             HistoryResolve(k, data) => messages' = data))
       /\ (mounted /\ error = ErrHistory /\ messages' # messages) =>
              (\A frame \in ChannelMessages(channelId) :
                  (~opens[Current].pending /\ OnMessage(Current, frame)) =>
                      messages' = Append(messages, frame))]_vars

\* The only fetch of the instance failed; its socket is open and a live
\* message is in the transcript
C11_Witness ==
    /\ mounted
    /\ Current = 1
    /\ ~opens[1].pending
    /\ error = ErrHistory
    /\ opens[1].readyState = OPEN
    /\ messages # <<>>

C13_OnlyMessageFrames ==
    \A i \in DOMAIN messages : messages[i].type = "message"

\* A live message entered the transcript of a first open whose history is
\* still awaited; the socket is open and can deliver frames of other types
C13_Witness ==
    /\ mounted
    /\ Current = 1
    /\ opens[1].pending
    /\ opens[1].readyState = OPEN
    /\ Len(messages) = 1

(* C14: when a live 'message' frame with id x arrived before the history   *)
(* response and the response holds x, the transcript after the response is *)
(* exactly the history list: its ids, each once, in its order.              *)
C14_HistoryAfterLive ==
    [][(mounted /\ Current = 1 /\ messages # <<>> /\ opens' # opens) =>
          \A data \in Histories(channelId) :
              (/\ HistoryResolve(1, data)
               /\ \E i \in DOMAIN data : data[i] = messages[1]) =>
                  /\ messages' = data
                  /\ \A i, j \in DOMAIN messages' :
                         i # j => messages'[i].id # messages'[j].id]_vars

\* The live frame with id 1 is in the transcript and the history of the
\* first open, which can hold ids 1 and 2, is still awaited
C14_Witness ==
    /\ mounted
    /\ Current = 1
    /\ opens[1].pending
    /\ channelId = 1
    /\ messages = <<Message(1)>>

(* C15: a live 'message' frame is put after everything the transcript      *)
(* holds (the history entries and the frames received before it), so that  *)
(* frames appear in the order received.                                     *)
C15_LiveAppendsInOrder ==
    [][messages' # messages =>
          \A k \in DOMAIN opens : \A frame \in Frames(opens[k].channelId) :
              OnMessage(k, frame) =>
                  /\ Len(messages') = Len(messages) + 1
                  /\ \A i \in DOMAIN messages : messages'[i] = messages[i]
                  /\ messages'[Len(messages')] = frame]_vars

\* After the history of the first open was dealt with, id 2 and then id 1
\* were shown in that order, which only the order of receipt explains
C15_Witness ==
    /\ mounted
    /\ Current = 1
    /\ ~opens[1].pending
    /\ error = ""
    /\ messages = <<Message(2), Message(1)>>

C17_StoreMatchesCookie ==
    /\ [](/\ isAuthenticated <=> storeToken # NoToken
          /\ storeToken = cookie)
    /\ [][LoginReject =>
             UNCHANGED <<cookie, storeToken, user, isAuthenticated>>]_vars

\* A session that a login opened: the chat was rendered with its token, the
\* user record of the login is in the store
C17_Witness ==
    /\ isAuthenticated
    /\ storeToken \in Tokens
    /\ cookie = storeToken
    /\ user \in Users
    /\ mounted
    /\ token = storeToken
    /\ loginPending = 0

(* C18: a protected view is rendered only while isAuthenticated is true;   *)
(* when it is false the guard has redirected to /login, so after logout no *)
(* protected view is rendered and no connection of the Messaging view is   *)
(* connecting or open.                                                      *)
C18_GuardedViews ==
    /\ route \in Protected => isAuthenticated
    /\ mounted <=> route = MessagingRoute
    /\ mounted => token = storeToken
    /\ ~isAuthenticated =>
           /\ ~mounted
           /\ \A k \in DOMAIN opens :
                  opens[k].readyState \notin {CONNECTING, OPEN}

\* Logged out while the chat was rendered: the guard led to /login and the
\* socket of the chat is closing
C18_Witness ==
    /\ ~isAuthenticated
    /\ cookie = NoToken
    /\ route = LoginRoute
    /\ opens # <<>>
    /\ opens[Current].token \in Tokens
    /\ opens[Current].readyState = CLOSING

====
